---- MODULE Spec2Model ----
(***************************************************************************)
(* webcrypto-local: the socket client (Client, src/unnamed/part_000) and   *)
(* the action dispatcher of the local server (LocalServer,                 *)
(* src/unnamed/part_001).                                                  *)
(*                                                                         *)
(* SpecClient  : one Client object, its socket, its pending map `stack`,   *)
(*               the promise chains of send() and of socket.onmessage,     *)
(*               and a peer that answers transmitted frames.               *)
(* SpecServer  : one LocalServer object, its session list, its handle      *)
(*               registry `memoryStorage` and the async onMessage handlers *)
(*               interleaved at their await points.                        *)
(***************************************************************************)
EXTENDS Integers, Sequences, FiniteSets, TLC

\* ---------------------------------------------------------------- bounds
\* number of Client.send calls made by the application
MaxSends == 2
\* number of ActionProto objects the application keeps and may pass to
\* several send calls (a call without data gets its own new ActionProto)
MaxObjs == 1
\* number of unsolicited server events (authorized, token) pushed to the client
MaxEvents == 1

\* number of socket.onopen handlers that run against the one BrowserStorage
\* (connects of one page, of several pages, or of a page after a restart)
MaxOpens == 2
\* number of times the ratchet of one handler advances (and emits 'update')
MaxUpdates == 2

\* ------------------------------------------------------------- constants
NoId == -1
NoCall == 0
\* storage.loadIdentity() / loadSession() found nothing
NoIdentity == 0
NoSession == 0

\* error values handed to reject / thrown
TypeError == "TypeError"
NotOpenError == "Socket connection is not open"
ChannelClosedError == "channel closed"
GetError == "Cannot GET response"
\* emit("error", new ClientErrorEvent(this, error)) for an Error with a message
ClientErrorEvent(message) == "error: " \o message
\* the identity in the pre-key bundle of the one local server
ServerIdentity == "server"
\* error strings a ResultProto can carry ("" is the absent error field)
ReplyErrors == {"", "E"}

\* ============================================================ the client
VARIABLES
    connectPc,       \* Client.connect: "idle" | "get" | "done" | "failed"
    socket,          \* this.socket: "none" (undefined) or its readyState
    openPc,          \* the async body of socket.onopen: "idle" | "run" | "done"
    cipher,          \* this.cipher is defined
    messageCounter,  \* this.messageCounter
    objActionId,     \* data.actionId of each application-held ActionProto
    calls,           \* the send() calls made so far, one record per promise
    stack,           \* this.stack: actionId -> call whose {resolve, reject} it holds
    wire,            \* frames handed to socket.send on an open socket
    inbound,         \* frames received by socket.onmessage, still in processing
    events,          \* events the Client has emitted
    unhandled,       \* promise rejections that no handler received
    storage,         \* BrowserStorage: identity, remote identity "0", session "0"
    opens            \* the async bodies of socket.onopen started so far

storeVars == <<storage, opens>>
clientVars == <<connectPc, socket, openPc, cipher, messageCounter, objActionId,
                calls, stack, wire, inbound, events, unhandled, storeVars>>

\* the state of the server (LocalServer and the connection layer)
VARIABLES
    sessions,        \* LocalServer.sessions: the ids of the Session objects pushed
    session,         \* the state of each Session: "none", "open-unauth", "open-auth", "closed"
    pushed,          \* unsolicited events LocalServer sent to each session
    memoryStorage,   \* LocalServer.memoryStorage: the handle registry
    keyStorage,      \* crypto.keyStorage of each provider: the indexes it holds
    certStorage,     \* crypto.certStorage of each provider: the indexes it holds
    loggedIn,        \* crypto.isLoggedIn of each provider
    tasks,           \* the onMessage calls that have not been answered yet
    received,        \* number of 'message' events so far
    idCounter,       \* number of fresh ids (random bytes, new key material) drawn
    handed,          \* number of outcomes handed to the reply path (e.resolve, e.reject)
    tokens           \* number of 'token' events the provider has emitted

serverVars == <<sessions, session, pushed, memoryStorage, keyStorage, certStorage,
                loggedIn, tasks, received, idCounter, handed, tokens>>

vars == <<clientVars, serverVars>>

Objs == 1..MaxObjs
EmptyStorage ==
    [identity |-> NoIdentity, remote |-> "", session |-> NoSession, state |-> 0]

\* A call of send(): obj = 0 is a call without data (a new ActionProto).
\*   id      the actionId assigned to the call (NoId when the executor threw)
\*   pc      "thrown" (the executor threw) | "export" | "encrypt"
\*           (cipher.encrypt is in progress) | "exportMsg" |
\*           "failed" (the chain ended in an unhandled rejection) |
\*           "sent" (frame handed to an open socket) | "dropped" (frame
\*           handed to a closing or closed socket, which discards it)
\*   frameId the actionId serialized into the frame of the call
\*   nres, nrej  how often resolve / reject of the call's promise was invoked
\*   val     the value handed to resolve ("data") or to reject (the error)
\*   from    the call whose frame the settling reply answers (NoCall when
\*           the promise was not settled by a reply)
NewCall(o) ==
    [obj |-> o, id |-> NoId, pc |-> "thrown", frameId |-> NoId,
     nres |-> 0, nrej |-> 0, val |-> "none", from |-> NoCall]

Resolve(c, v, p) == [c EXCEPT !.nres = @ + 1, !.val = v, !.from = p]
Reject(c, e, p) == [c EXCEPT !.nrej = @ + 1, !.val = e, !.from = p]

RemoveKey(f, k) == [x \in (DOMAIN f) \ {k} |-> f[x]]
PutKey(f, k, v) == [x \in (DOMAIN f) \cup {k} |-> IF x = k THEN v ELSE f[x]]
EmptyMap == [x \in {} |-> NoCall]

\* data.actionId as the promise chain of call i reads it
DataActionId(i) ==
    IF calls[i].obj = 0 THEN calls[i].id ELSE objActionId[calls[i].obj]

\* get state(): this.socket.readyState; reading it of an undefined socket throws
StateThrows == socket = "none"

\* checkSocketState(): the error it throws, "" when it returns normally
CheckSocketState ==
    IF StateThrows THEN TypeError
    ELSE IF socket # "open" THEN NotOpenError
    ELSE ""


\* connect(address): starts the discovery GET
Connect ==
    /\ connectPc = "idle"
    /\ connectPc' = "get"
    /\ UNCHANGED <<socket, openPc, cipher, messageCounter, objActionId, calls,
                   stack, wire, inbound, events, unhandled>>
    /\ UNCHANGED serverVars
    /\ UNCHANGED storeVars

\* getServerInfo resolved (status 200): the socket is created
GetServerInfoOk ==
    /\ connectPc = "get"
    /\ connectPc' = "done"
    /\ socket' = "connecting"
    /\ UNCHANGED <<openPc, cipher, messageCounter, objActionId, calls, stack,
                   wire, inbound, events, unhandled>>
    /\ UNCHANGED serverVars
    /\ UNCHANGED storeVars

\* faulty variant: the rejection is reported and the socket is created all the same
GetServerInfoFail_OpensSocket ==
    /\ connectPc = "get"
    /\ connectPc' = "failed"
    /\ socket' = "connecting"
    /\ events' = events \cup {ClientErrorEvent(GetError)}
    /\ UNCHANGED <<openPc, cipher, messageCounter, objActionId, calls,
                   stack, wire, inbound, unhandled>>
    /\ UNCHANGED serverVars
    /\ UNCHANGED storeVars
\* getServerInfo rejected (status other than 200): 'error' is emitted
GetServerInfoFail ==
    /\ connectPc = "get"
    /\ connectPc' = "failed"
    /\ events' = events \cup {ClientErrorEvent(GetError)}
    /\ UNCHANGED <<socket, openPc, cipher, messageCounter, objActionId, calls,
                   stack, wire, inbound, unhandled>>
    /\ UNCHANGED serverVars
    /\ UNCHANGED storeVars

\* socket.onopen: the socket is open, the async set-up of the ratchet starts
SocketOpen ==
    /\ socket = "connecting"
    /\ socket' = "open"
    /\ openPc' = "run"
    /\ UNCHANGED <<connectPc, cipher, messageCounter, objActionId, calls, stack,
                   wire, inbound, events, unhandled>>
    /\ UNCHANGED serverVars
    /\ UNCHANGED storeVars

\* the async body of onopen ran to its end: the identity was loaded, or
\* created and saved, the remote identity was saved, this.cipher is set,
\* 'listening' is emitted
OnOpenDone ==
    /\ openPc = "run"
    /\ openPc' = "done"
    /\ cipher' = TRUE
    /\ events' = events \cup {"listening"}
    /\ storage' = [storage EXCEPT
                      !.identity = IF @ = NoIdentity THEN MaxOpens + 1 ELSE @,
                      !.remote = ServerIdentity]
    /\ UNCHANGED opens
    /\ UNCHANGED <<connectPc, socket, messageCounter, objActionId, calls, stack,
                   wire, inbound, unhandled>>
    /\ UNCHANGED serverVars

\* socket.onerror
SocketError ==
    /\ socket \in {"connecting", "open"}
    /\ "error" \notin events
    /\ events' = events \cup {"error"}
    /\ UNCHANGED <<connectPc, socket, openPc, cipher, messageCounter,
                   objActionId, calls, stack, wire, inbound, unhandled>>
    /\ UNCHANGED serverVars
    /\ UNCHANGED storeVars

\* close(): this.socket.close()
Close ==
    /\ socket \in {"connecting", "open"}
    /\ socket' = "closing"
    /\ UNCHANGED <<connectPc, openPc, cipher, messageCounter, objActionId,
                   calls, stack, wire, inbound, events, unhandled>>
    /\ UNCHANGED serverVars
    /\ UNCHANGED storeVars

\* socket.onclose, after close() or when the peer closes: emits 'close'
SocketClosed ==
    /\ socket \in {"connecting", "open", "closing"}
    /\ socket' = "closed"
    /\ events' = events \cup {"close"}
    /\ UNCHANGED <<connectPc, openPc, cipher, messageCounter, objActionId,
                   calls, stack, wire, inbound, unhandled>>
    /\ UNCHANGED serverVars
    /\ UNCHANGED storeVars

\* send(event, data): the promise executor, up to the start of exportProto
Send(o) ==
    /\ Len(calls) < MaxSends
    /\ IF CheckSocketState # ""
       THEN /\ calls' = Append(calls, Reject(NewCall(o), CheckSocketState, NoCall))
            /\ UNCHANGED <<messageCounter, objActionId>>
       ELSE /\ calls' = Append(calls, [NewCall(o) EXCEPT !.id = messageCounter,
                                                         !.pc = "export"])
            /\ messageCounter' = messageCounter + 1
            /\ objActionId' = IF o = 0 THEN objActionId
                              ELSE [objActionId EXCEPT ![o] = messageCounter]
    /\ UNCHANGED <<connectPc, socket, openPc, cipher, stack, wire, inbound,
                   events, unhandled>>
    /\ UNCHANGED serverVars
    /\ UNCHANGED storeVars

\* data.exportProto() resolved; the first then-callback calls cipher.encrypt.
\* With this.cipher undefined the callback throws and the chain, which has no
\* catch, ends: neither resolve nor reject is ever called.
ExportDone(i) ==
    /\ i \in DOMAIN calls
    /\ calls[i].pc = "export"
    /\ calls' = [calls EXCEPT ![i].frameId = DataActionId(i),
                              ![i].pc = IF cipher THEN "encrypt" ELSE "failed"]
    /\ unhandled' = IF cipher THEN unhandled
                    ELSE unhandled \cup {<<"send", TypeError>>}
    /\ UNCHANGED <<connectPc, socket, openPc, cipher, messageCounter,
                   objActionId, stack, wire, inbound, events>>
    /\ UNCHANGED serverVars
    /\ UNCHANGED storeVars

\* cipher.encrypt resolved: msg.exportProto() is called
EncryptResolved(i) ==
    /\ i \in DOMAIN calls
    /\ calls[i].pc = "encrypt"
    /\ calls' = [calls EXCEPT ![i].pc = "exportMsg"]
    /\ UNCHANGED <<connectPc, socket, openPc, cipher, messageCounter,
                   objActionId, stack, wire, inbound, events, unhandled>>
    /\ UNCHANGED serverVars
    /\ UNCHANGED storeVars

\* cipher.encrypt and msg.exportProto resolved; the second then-callback
\* stores {resolve, reject} under data.actionId and calls socket.send, which
\* discards the frame when the socket is closing or closed
EncryptDone(i) ==
    /\ i \in DOMAIN calls
    /\ calls[i].pc = "exportMsg"
    /\ stack' = PutKey(stack, DataActionId(i), i)
    /\ wire' = IF socket = "open"
               THEN wire \cup {[id |-> calls[i].frameId, payload |-> i]}
               ELSE wire
    /\ calls' = [calls EXCEPT ![i].pc = IF socket = "open" THEN "sent"
                                        ELSE "dropped"]
    /\ UNCHANGED <<connectPc, socket, openPc, cipher, messageCounter,
                   objActionId, inbound, events, unhandled>>
    /\ UNCHANGED serverVars
    /\ UNCHANGED storeVars

\* the peer answers a frame it received: one ResultProto with the actionId of
\* the frame and either data (computed from the frame's payload) or an error
PeerReply(f, e) ==
    /\ f \in wire
    /\ socket = "open"
    /\ wire' = wire \ {f}
    /\ inbound' = inbound \cup {[actionId |-> f.id, payload |-> f.payload,
                                 error |-> e, pc |-> "import"]}
    /\ UNCHANGED <<connectPc, socket, openPc, cipher, messageCounter,
                   objActionId, calls, stack, events, unhandled>>
    /\ UNCHANGED serverVars
    /\ UNCHANGED storeVars

\* the peer pushes an unsolicited event (authorized, token): an envelope
\* whose actionId is not one the client assigned
PeerEvent ==
    /\ socket = "open"
    /\ cipher
    /\ Cardinality({m \in inbound : m.payload = NoCall}) < MaxEvents
    /\ inbound' = inbound \cup {[actionId |-> NoId, payload |-> NoCall,
                                 error |-> "", pc |-> "import"]}
    /\ UNCHANGED <<connectPc, socket, openPc, cipher, messageCounter,
                   objActionId, calls, stack, wire, events, unhandled>>
    /\ UNCHANGED serverVars
    /\ UNCHANGED storeVars

\* socket.onmessage: MessageSignedProtocol.importProto resolved, the
\* then-callback calls this.cipher.decrypt(proto)
ImportDone(m) ==
    /\ m \in inbound
    /\ m.pc = "import"
    /\ inbound' = (inbound \ {m}) \cup {[m EXCEPT !.pc = "decrypt"]}
    /\ UNCHANGED <<connectPc, socket, openPc, cipher, messageCounter,
                   objActionId, calls, stack, wire, events, unhandled>>
    /\ UNCHANGED serverVars
    /\ UNCHANGED storeVars

\* socket.onmessage: cipher.decrypt resolved, onMessage(msg) is called
DecryptDone(m) ==
    /\ m \in inbound
    /\ m.pc = "decrypt"
    /\ inbound' = (inbound \ {m}) \cup {[m EXCEPT !.pc = "parse"]}
    /\ UNCHANGED <<connectPc, socket, openPc, cipher, messageCounter,
                   objActionId, calls, stack, wire, events, unhandled>>
    /\ UNCHANGED serverVars
    /\ UNCHANGED storeVars

\* onMessage(message) after ResultProto.importProto: pop this.stack[actionId]
\* and settle it. With no entry, promise is undefined and promise.resolve /
\* promise.reject throws a TypeError inside the async function, whose
\* rejection nobody handles; no event is emitted.
OnMessage(m) ==
    /\ m \in inbound
    /\ m.pc = "parse"
    /\ inbound' = inbound \ {m}
    /\ IF m.actionId \in DOMAIN stack
       THEN /\ stack' = RemoveKey(stack, m.actionId)
            /\ calls' = [calls EXCEPT ![stack[m.actionId]] =
                            IF m.error # ""
                            THEN Reject(@, <<"Error", m.error>>, m.payload)
                            ELSE Resolve(@, "data", m.payload)]
            /\ UNCHANGED unhandled
       ELSE /\ unhandled' = unhandled \cup {<<"onMessage", TypeError>>}
            /\ UNCHANGED <<stack, calls>>
    /\ UNCHANGED <<connectPc, socket, openPc, cipher, messageCounter,
                   objActionId, wire, events>>
    /\ UNCHANGED serverVars
    /\ UNCHANGED storeVars

ClientNext ==
    \/ Connect
    \/ GetServerInfoOk
    \/ GetServerInfoFail
    \/ SocketOpen
    \/ OnOpenDone
    \/ SocketError
    \/ Close
    \/ SocketClosed
    \/ \E o \in 0..MaxObjs : Send(o)
    \/ \E i \in 1..MaxSends : ExportDone(i)
    \/ \E i \in 1..MaxSends : EncryptResolved(i)
    \/ \E i \in 1..MaxSends : EncryptDone(i)
    \/ \E f \in wire, e \in ReplyErrors : PeerReply(f, e)
    \/ PeerEvent
    \/ \E m \in inbound : ImportDone(m)
    \/ \E m \in inbound : DecryptDone(m)
    \/ \E m \in inbound : OnMessage(m)

\* ------------------------------------------------- the identity store
\* The async body of socket.onopen, one action per stretch between two
\* awaits, for every socket that opens against the one BrowserStorage.
\* A handler: pc  "load" | "create" | "save" | "bundle" | "saveRemote" |
\*                "listening" | "failed" (the body rejected: 'error' is emitted)
\*            identity  the local variable `identity`
\*            cipher    this.cipher as the handler set it
\*            state     how often the ratchet of this.cipher has advanced
\*            json      the calls of this.cipher.toJSON() that have not resolved:
\*                      the ratchet state each of them serializes
Handlers == DOMAIN opens
SetOpen(c, pc, identity, ciph) ==
    [opens EXCEPT ![c] = [@ EXCEPT !.pc = pc, !.identity = identity, !.cipher = ciph]]

\* Identity.create(1): a new identity, different from every other one
NewIdentity(c) == c
\* AsymmetricRatchet.create(identity, bundle): a new session, different from
\* every other one (the branch that loads the stored session is commented out)
Ratchet(c) == c

\* a socket opens: BrowserStorage.create()
OnOpen ==
    /\ Len(opens) < MaxOpens
    /\ opens' = Append(opens, [pc |-> "load", identity |-> NoIdentity,
                               cipher |-> NoSession, state |-> 0, json |-> {}])
    /\ UNCHANGED <<connectPc, socket, openPc, cipher, messageCounter, objActionId,
                   calls, stack, wire, inbound, events, unhandled, storage>>
    /\ UNCHANGED serverVars

\* let identity = await storage.loadIdentity(); if (!identity) ...
LoadIdentity(c) ==
    /\ opens[c].pc = "load"
    /\ opens' = SetOpen(c, IF storage.identity = NoIdentity THEN "create" ELSE "bundle",
                        storage.identity, NoSession)
    /\ UNCHANGED <<connectPc, socket, openPc, cipher, messageCounter, objActionId,
                   calls, stack, wire, inbound, events, unhandled, storage>>
    /\ UNCHANGED serverVars

\* identity = await Identity.create(1)
CreateIdentity(c) ==
    /\ opens[c].pc = "create"
    /\ opens' = SetOpen(c, "save", NewIdentity(c), NoSession)
    /\ UNCHANGED <<connectPc, socket, openPc, cipher, messageCounter, objActionId,
                   calls, stack, wire, inbound, events, unhandled, storage>>
    /\ UNCHANGED serverVars

\* await storage.saveIdentity(identity)
SaveIdentity(c) ==
    /\ opens[c].pc = "save"
    /\ storage' = [storage EXCEPT !.identity = opens[c].identity]
    /\ opens' = SetOpen(c, "bundle", opens[c].identity, NoSession)
    /\ UNCHANGED <<connectPc, socket, openPc, cipher, messageCounter, objActionId,
                   calls, stack, wire, inbound, events, unhandled>>
    /\ UNCHANGED serverVars

\* the bundle is imported; this.cipher = await AsymmetricRatchet.create(...)
CreateCipher(c) ==
    /\ opens[c].pc = "bundle"
    /\ opens' = SetOpen(c, "saveRemote", opens[c].identity, Ratchet(c))
    /\ UNCHANGED <<connectPc, socket, openPc, cipher, messageCounter, objActionId,
                   calls, stack, wire, inbound, events, unhandled, storage>>
    /\ UNCHANGED serverVars

\* await storage.saveRemoteIdentity("0", this.cipher.remoteIdentity); the
\* 'update' listener is registered and 'listening' is emitted
SaveRemoteIdentity(c) ==
    /\ opens[c].pc = "saveRemote"
    /\ storage' = [storage EXCEPT !.remote = ServerIdentity]
    /\ opens' = SetOpen(c, "listening", opens[c].identity, opens[c].cipher)
    /\ UNCHANGED <<connectPc, socket, openPc, cipher, messageCounter, objActionId,
                   calls, stack, wire, inbound, events, unhandled>>
    /\ UNCHANGED serverVars

\* the ratchet advances (a message was encrypted or decrypted) and the cipher
\* emits 'update': the listener calls this.cipher.toJSON()
CipherUpdate(c) ==
    /\ opens[c].pc = "listening"
    /\ opens[c].state < MaxUpdates
    /\ opens' = [opens EXCEPT ![c].state = @ + 1,
                              ![c].json = @ \cup {opens[c].state + 1}]
    /\ UNCHANGED <<connectPc, socket, openPc, cipher, messageCounter, objActionId,
                   calls, stack, wire, inbound, events, unhandled, storage>>
    /\ UNCHANGED serverVars

\* storage.saveSession(key, session): one atomic write of the session as it is
saveSession(store, c) ==
    [store EXCEPT !.session = opens[c].cipher, !.state = opens[c].state]

\* faulty variant: the then-callback stores the json it was given
SessionJson_SavesJson(c, v) ==
    /\ v \in opens[c].json
    /\ storage' = [storage EXCEPT !.session = opens[c].cipher, !.state = v]
    /\ opens' = [opens EXCEPT ![c].json = @ \ {v}]
    /\ UNCHANGED <<connectPc, socket, openPc, cipher, messageCounter, objActionId,
                   calls, stack, wire, inbound, events, unhandled>>
    /\ UNCHANGED serverVars
\* a toJSON resolved, in any order with the others: the then-callback drops the
\* json and calls storage.saveSession(remoteIdentityId, this.cipher)
SessionJson(c, v) ==
    /\ v \in opens[c].json
    /\ storage' = saveSession(storage, c)
    /\ opens' = [opens EXCEPT ![c].json = @ \ {v}]
    /\ UNCHANGED <<connectPc, socket, openPc, cipher, messageCounter, objActionId,
                   calls, stack, wire, inbound, events, unhandled>>
    /\ UNCHANGED serverVars

\* an awaited call of the body rejects: .catch emits 'error'
OpenFails(c) ==
    /\ opens[c].pc \in {"load", "create", "save", "bundle", "saveRemote"}
    /\ opens' = SetOpen(c, "failed", opens[c].identity, opens[c].cipher)
    /\ UNCHANGED <<connectPc, socket, openPc, cipher, messageCounter, objActionId,
                   calls, stack, wire, inbound, events, unhandled, storage>>
    /\ UNCHANGED serverVars

StoreNext ==
    \/ OnOpen
    \/ \E c \in Handlers : LoadIdentity(c)
    \/ \E c \in Handlers : CreateIdentity(c)
    \/ \E c \in Handlers : SaveIdentity(c)
    \/ \E c \in Handlers : CreateCipher(c)
    \/ \E c \in Handlers : SaveRemoteIdentity(c)
    \/ \E c \in Handlers : CipherUpdate(c)
    \/ \E c \in Handlers, v \in 1..MaxUpdates : SessionJson(c, v)
    \/ \E c \in Handlers : OpenFails(c)

\* ============================================================ the server
\* --- bounds
\* sessions that connect to the server
MaxSessions == 2
\* 'message' events (action envelopes) the server receives in total
MaxEnvelopes == 2
\* onMessage calls that are suspended at an await at the same time
MaxTasks == 2
\* key materials a client can import (an imported public key of material m
\* has thumbprint m); also the indexes of a provider's key and certificate
\* storage (index i holds an object of material i)
MaxMaterials == 1


SessIds == 1..MaxSessions
Providers == {"p1", "p2"}
Materials == 1..MaxMaterials
KeyTypes == {"public", "private", "secret"}

\* the ACTION tags of the protos imported by part_001, and a tag none of them has
ProviderTags == {"ProviderInfo", "ProviderGetCrypto"}
CryptoTags == {"IsLoggedIn", "Login"}
SubtleTags == {"Digest", "GenerateKey", "Sign", "Verify", "Encrypt", "Decrypt",
               "DeriveBits", "DeriveKey", "WrapKey", "UnwrapKey", "ExportKey",
               "ImportKey"}
KeyStorageTags == {"KeyStorageGetItem", "KeyStorageSetItem", "KeyStorageRemoveItem",
                   "KeyStorageKeys", "KeyStorageClear"}
CertStorageTags == {"CertificateStorageGetItem", "CertificateStorageSetItem",
                    "CertificateStorageRemoveItem", "CertificateStorageImport",
                    "CertificateStorageExport", "CertificateStorageKeys",
                    "CertificateStorageClear"}
HandledTags == ProviderTags \cup CryptoTags \cup SubtleTags \cup KeyStorageTags
               \cup CertStorageTags
UnknownTags == {"Nope"}
Tags == HandledTags \cup UnknownTags

\* --- errors a handler throws
\* faulty variant: the message does not name the tag
UnknownActionError_NoTag(tag) == "Unknown action ''"
UnknownActionError(tag) == "Unknown action '" \o tag \o "'"
KeyNotFoundError(idx) == "Cannot get key by identity '" \o ToString(idx) \o "'"
ItemNotFoundError(id) == "Cannot get CryptoItem by ID '" \o ToString(id) \o "'"
LoginTimeoutError == "CryptoLogin timeout"
\* a condition raised by a collaborator: importProto, provider.getCrypto, a
\* subtle or storage operation, crypto.login
ExternalError == "Err"

Undefined == "undefined"
Bytes == "bytes"

\* new ResultProto(action): carries the actionId and the action of the request
ResultProto(action) ==
    [actionId |-> action.actionId, action |-> action.action, data |-> Undefined,
     error |-> ""]

\* new ServiceCryptoItem(id, item, providerID)
ServiceCryptoItem(id, type, providerID) ==
    [id |-> id, type |-> type, providerID |-> providerID]

\* the thumbprint of a public key: the SHA-256 of its SPKI, a function of the material
Thumbprint(m) == m
\* 32 random bytes, or the thumbprint of newly generated material
FreshId == MaxMaterials + idCounter + 1

\* GetIdentity(key, crypto) for a key of known material
GetIdentity(type, m) == IF type # "public" THEN FreshId ELSE Thumbprint(m)

\* the module-level `crypto` (node-webcrypto-ossl) is always defined
ModuleCrypto == TRUE

\* faulty variant: a later entry with the same triple replaces the one found
FirstMatch_Last(items, ref, i) ==
    LET found == {j \in i..Len(items) : /\ items[j].id = ref.id
                                        /\ items[j].providerID = ref.providerID
                                        /\ items[j].type = ref.type}
    IN IF found = {} THEN 0 ELSE CHOOSE j \in found : \A k \in found : k <= j
\* this.memoryStorage.some(...): the position of the first entry from i on whose
\* id, providerID and item.type equal those of ref, 0 when there is none
RECURSIVE FirstMatch(_, _, _)
FirstMatch(items, ref, i) ==
    IF i > Len(items) THEN 0
    ELSE IF /\ items[i].id = ref.id
            /\ items[i].providerID = ref.providerID
            /\ items[i].type = ref.type
         THEN i
         ELSE FirstMatch(items, ref, i + 1)

\* getItemFromStorage(cryptoItem): the position of the entry it returns, 0 for
\* undefined, -1 when it throws
getItemFromStorage(ref) ==
    LET foundKey == FirstMatch(memoryStorage, ref, 1) IN
    IF foundKey = 0 /\ ~ModuleCrypto THEN -1 ELSE foundKey

\* the error of `getItemFromStorage(ref).item`, "" when it yields an object
ItemOf(ref) ==
    LET r == getItemFromStorage(ref) IN
    IF r = -1 THEN ItemNotFoundError(ref.id)
    ELSE IF r = 0 THEN TypeError
    ELSE ""

\* the handles a client names in an envelope: one the server returned, one
\* that differs from it in the provider, and one the server never returned
OtherProvider(p) == CHOOSE q \in Providers : q # p
Refs ==
    {[id |-> memoryStorage[i].id, providerID |-> memoryStorage[i].providerID,
      type |-> memoryStorage[i].type] : i \in DOMAIN memoryStorage}
    \cup {[id |-> memoryStorage[i].id,
           providerID |-> OtherProvider(memoryStorage[i].providerID),
           type |-> memoryStorage[i].type] : i \in DOMAIN memoryStorage}
    \cup {[id |-> 0, providerID |-> "p1", type |-> "secret"]}

\* --- the shape of each case of the switch in onMessage
\* cases that resolve one handle before their provider operation
OneKeyTags == {"Sign", "Verify", "Encrypt", "Decrypt", "UnwrapKey", "ExportKey",
               "KeyStorageSetItem", "CertificateStorageSetItem",
               "CertificateStorageExport"}
\* cases that resolve two handles, with an await between the two lookups
TwoKeyTags == {"DeriveBits", "DeriveKey", "WrapKey"}
\* cases whose result is a new key handle
NewKeyTags == {"DeriveKey", "UnwrapKey", "ImportKey"}
\* cases that leave `data` undefined
VoidTags == {"ProviderGetCrypto", "Login", "KeyStorageRemoveItem",
             "KeyStorageClear", "CertificateStorageRemoveItem",
             "CertificateStorageClear"}

\* the parameters a case reads: the others are not drawn
LookupTags == OneKeyTags \cup TwoKeyTags
StoreTags == (KeyStorageTags \cup CertStorageTags)
             \ {"KeyStorageKeys", "CertificateStorageKeys", "CertificateStorageExport"}
ProvidersOf(tag, pc) ==
    IF \/ tag \in LookupTags
       \/ pc = "start" /\ tag = "Login"
       \/ pc = "op" /\ tag \in StoreTags \cup NewKeyTags \cup {"GenerateKey"}
    THEN Providers ELSE {"p1"}
RefsOf(tag) ==
    IF tag \in LookupTags THEN Refs ELSE {[id |-> 0, providerID |-> "p1", type |-> "secret"]}
SettlesOf(tag) == IF tag = "ProviderInfo" THEN {TRUE} ELSE BOOLEAN
KeyTypesOf(tag) ==
    IF tag \in NewKeyTags \cup {"KeyStorageGetItem"} THEN KeyTypes ELSE {"secret"}
PairsOf(tag) == IF tag = "GenerateKey" THEN BOOLEAN ELSE {FALSE}

\* the state after `new Client()` and `new LocalServer()`
Init ==
    /\ connectPc = "idle"
    /\ socket = "none"
    /\ openPc = "idle"
    /\ cipher = FALSE
    /\ messageCounter = 0
    /\ objActionId = [o \in Objs |-> NoId]
    /\ calls = <<>>
    /\ stack = EmptyMap
    /\ wire = {}
    /\ inbound = {}
    /\ events = {}
    /\ unhandled = {}
    /\ storage = EmptyStorage
    /\ opens = <<>>
    /\ sessions = <<>>
    /\ session = [s \in SessIds |-> "none"]
    /\ pushed = [s \in SessIds |-> <<>>]
    /\ memoryStorage = <<>>
    /\ keyStorage = [p \in Providers |-> IF p = "p1" THEN Materials ELSE {}]
    /\ certStorage = [p \in Providers |-> IF p = "p1" THEN Materials ELSE {}]
    /\ loggedIn = [p \in Providers |-> FALSE]
    /\ tasks = {}
    /\ received = 0
    /\ idCounter = 0
    /\ handed = 0
    /\ tokens = 0

\* --- the connection layer (class Server): the session life cycle
\*   none -> open-unauth -> open-auth -> closed, closed from either open state
\* 'connect' -> LocalServer pushes the session unless it holds one that is equal
OnConnect(s) ==
    IF Len(sessions) > 0 /\ \E i \in DOMAIN sessions : sessions[i] = s
    THEN sessions
    ELSE Append(sessions, s)

IsOpen(s) == session[s] \in {"open-unauth", "open-auth"}

\* a peer connects and completes the handshake: state `open-unauth`
SessionOpen(s) ==
    /\ s = Len(sessions) + 1
    /\ session[s] = "none"
    /\ session' = [session EXCEPT ![s] = "open-unauth"]
    /\ sessions' = OnConnect(s)
    /\ UNCHANGED <<pushed, memoryStorage, keyStorage, certStorage, loggedIn,
                   tasks, received, idCounter, handed>>
    /\ UNCHANGED tokens
    /\ UNCHANGED clientVars

\* the session was authorized: state `open-auth`; 'auth' -> LocalServer sends
\* a ProviderAuthorizedEventProto to the session
SessionAuth(s) ==
    /\ session[s] = "open-unauth"
    /\ session' = [session EXCEPT ![s] = "open-auth"]
    /\ pushed' = [pushed EXCEPT ![s] = Append(@, "authorized")]
    /\ UNCHANGED <<sessions, memoryStorage, keyStorage, certStorage, loggedIn,
                   tasks, received, idCounter, handed>>
    /\ UNCHANGED tokens
    /\ UNCHANGED clientVars

\* the connection closed: state `closed`, what was sent to the socket is gone
\* with it; 'close' -> LocalServer only logs, the session stays in `sessions`
SessionClose(s) ==
    /\ IsOpen(s)
    /\ session' = [session EXCEPT ![s] = "closed"]
    /\ pushed' = [pushed EXCEPT ![s] = <<>>]
    /\ UNCHANGED <<sessions, memoryStorage, keyStorage, certStorage,
                   loggedIn, tasks, received, idCounter, handed>>
    /\ UNCHANGED tokens
    /\ UNCHANGED clientVars

\* --- LocalServer.onMessage, one action per stretch between two awaits
\* A task is one call of onMessage:
\*   sess, req    e.session and e.message (actionId, action)
\*   pc           "start" | "mid" | "prompt" | "op" | "ret" (the promise is settled)
\*   prov         params.providerID of a Login waiting for the prompt and of a
\*                case that resolved a handle, while its provider operation
\*                runs ("" otherwise: the other cases use it in one step only,
\*                which draws it)
\*   keys         the providerID of the registry entries whose live objects the
\*                case handed to its provider operation
\*   resultProto  the ResultProto created first
\*   thrown       the condition the call threw, "" when none
\*   named        the handles {id, providerID, type} the encoded result names
NewTask(s, action) ==
    [sess |-> s, req |-> action, pc |-> "start", prov |-> "",
     resultProto |-> ResultProto(action), thrown |-> "", named |-> {},
     keys |-> {}]

\* faulty variant: the condition escapes the promise of onMessage: nothing is settled
Throw_Escapes(t, e) == [t EXCEPT !.pc = "crashed", !.thrown = e]
Throw(t, e) == [t EXCEPT !.pc = "ret", !.thrown = e]
Return(t, data) == [t EXCEPT !.pc = "ret", !.resultProto.data = data]

\* crypto.login is defined for a PKCS#11 token ("p1"), not for the OpenSSL crypto
HasLogin(p) == p = "p1"

\* faulty variant: the cases of the key storage forget to assign `data`
DataOf_Forgets(tag) ==
    IF tag \in VoidTags \cup KeyStorageTags THEN Undefined ELSE Bytes
\* the value of `data` when a case of the switch ends without throwing
DataOf(tag) == IF tag \in VoidTags THEN Undefined ELSE Bytes

\* the 'message' listener calls onMessage(e.session, e.message), which runs up
\* to its first await; the default case throws before any await
Receive(s, tag) ==
    /\ IsOpen(s)
    /\ received < MaxEnvelopes
    /\ Cardinality(tasks) < MaxTasks
    /\ received' = received + 1
    /\ LET action == [actionId |-> received, action |-> tag]
           t == NewTask(s, action) IN
       tasks' = tasks \cup
                {IF tag \in HandledTags THEN t ELSE Throw(t, UnknownActionError(tag))}
    /\ UNCHANGED <<sessions, session, pushed, memoryStorage, keyStorage,
                   certStorage, loggedIn, idCounter, handed>>
    /\ UNCHANGED tokens
    /\ UNCHANGED clientVars

\* the providerID of the entry whose live object getItemFromStorage(ref).item is
OwnerOf(ref) == memoryStorage[getItemFromStorage(ref)].providerID

\* the task after importProto and provider.getCrypto (ok: neither rejected)
\* and the synchronous code that follows them: the crypto is that of
\* params.providerID, the key that of the handle
AfterParams(t, p, ok, ref) ==
    LET tag == t.req.action IN
    IF tag = "ProviderInfo" THEN Return(t, Bytes)
    ELSE IF tag = "KeyStorageSetItem" /\ ItemOf(ref) # "" THEN Throw(t, ItemOf(ref))
    ELSE IF ~ok THEN Throw(t, ExternalError)
    ELSE IF tag = "ProviderGetCrypto" THEN Return(t, DataOf(tag))
    ELSE IF tag = "IsLoggedIn" THEN Return(t, DataOf(tag))
    ELSE IF tag = "Login"
         THEN IF HasLogin(p) THEN [t EXCEPT !.pc = "prompt", !.prov = p]
              ELSE Return(t, DataOf(tag))
    ELSE IF tag \in OneKeyTags \cup TwoKeyTags /\ ItemOf(ref) # ""
         THEN Throw(t, ItemOf(ref))
    ELSE IF tag \in TwoKeyTags
         THEN [t EXCEPT !.pc = "mid", !.prov = p, !.keys = {OwnerOf(ref)}]
    ELSE IF tag \in OneKeyTags
         THEN [t EXCEPT !.pc = "op", !.prov = p, !.keys = {OwnerOf(ref)}]
    ELSE [t EXCEPT !.pc = "op"]

Begin(t, p, ok, ref) ==
    /\ t \in tasks
    /\ t.pc = "start"
    /\ tasks' = (tasks \ {t}) \cup {AfterParams(t, p, ok, ref)}
    /\ UNCHANGED <<sessions, session, pushed, memoryStorage, keyStorage,
                   certStorage, loggedIn, received, idCounter, handed>>
    /\ UNCHANGED tokens
    /\ UNCHANGED clientVars

\* DeriveBits, DeriveKey, WrapKey: the second getItemFromStorage, after an await
Mid(t, ref) ==
    /\ t \in tasks
    /\ t.pc = "mid"
    /\ tasks' = (tasks \ {t}) \cup
                {IF ItemOf(ref) # ""
                 THEN Throw([t EXCEPT !.prov = "", !.keys = {}], ItemOf(ref))
                 ELSE [t EXCEPT !.pc = "op", !.keys = @ \cup {OwnerOf(ref)}]}
    /\ UNCHANGED <<sessions, session, pushed, memoryStorage, keyStorage,
                   certStorage, loggedIn, received, idCounter, handed>>
    /\ UNCHANGED tokens
    /\ UNCHANGED clientVars

\* Login: the notifier calls back
Prompt(t, response) ==
    /\ t \in tasks
    /\ t.pc = "prompt"
    /\ tasks' = (tasks \ {t}) \cup
                {CASE response = "replied" ->
                        Return([t EXCEPT !.prov = ""], DataOf(t.req.action))
                   [] response = "loginThrows" ->
                        Throw([t EXCEPT !.prov = ""], ExternalError)
                   [] OTHER -> Throw([t EXCEPT !.prov = ""], LoginTimeoutError)}
    /\ loggedIn' = IF response = "replied" THEN [loggedIn EXCEPT ![t.prov] = TRUE]
                   ELSE loggedIn
    /\ UNCHANGED <<sessions, session, pushed, memoryStorage, keyStorage,
                   certStorage, received, idCounter, handed>>
    /\ UNCHANGED tokens
    /\ UNCHANGED clientVars

\* faulty variant: CertificateStorage.GetItem registers what it did not get
OpThrows_NoCertCheck(tag, p, m) ==
    CASE tag = "KeyStorageGetItem" /\ m \notin keyStorage[p] -> KeyNotFoundError(m)
      [] OTHER -> ""
\* faulty variant: KeyStorage.GetItem goes on with the key it did not get
OpThrows_NoKeyCheck(tag, p, m) ==
    CASE tag = "CertificateStorageGetItem" /\ m \notin certStorage[p] -> TypeError
      [] OTHER -> ""
\* the condition a case throws after its provider operation resolved
OpThrows(tag, p, m) ==
    CASE tag = "KeyStorageGetItem" /\ m \notin keyStorage[p] -> KeyNotFoundError(m)
      [] tag = "CertificateStorageGetItem" /\ m \notin certStorage[p] -> TypeError
      [] OTHER -> ""

\* faulty variant: the entries are inserted after the result has been returned
Pushes_Deferred(tag, p, kt, m, pair) == <<>>
\* faulty variant: the private key of a pair is given an identity of its own
Pushes_OwnIdentity(tag, p, kt, m, pair) ==
    CASE tag = "GenerateKey" ->
            IF pair THEN <<ServiceCryptoItem(FreshId, "public", p),
                           ServiceCryptoItem(FreshId + 1, "private", p)>>
            ELSE <<ServiceCryptoItem(FreshId, "secret", p)>>
      [] tag \in NewKeyTags \cup {"KeyStorageGetItem"} ->
            <<ServiceCryptoItem(GetIdentity(kt, m), kt, p)>>
      [] tag \in {"CertificateStorageGetItem", "CertificateStorageImport"} ->
            <<ServiceCryptoItem(Thumbprint(m), "public", p),
              ServiceCryptoItem(Thumbprint(m), "x509", p)>>
      [] OTHER -> <<>>
\* the entries a case pushes to memoryStorage
Pushes(tag, p, kt, m, pair) ==
    CASE tag = "GenerateKey" ->
            IF pair THEN <<ServiceCryptoItem(FreshId, "public", p),
                           ServiceCryptoItem(FreshId, "private", p)>>
            ELSE <<ServiceCryptoItem(FreshId, "secret", p)>>
      [] tag \in NewKeyTags \cup {"KeyStorageGetItem"} ->
            <<ServiceCryptoItem(GetIdentity(kt, m), kt, p)>>
      [] tag \in {"CertificateStorageGetItem", "CertificateStorageImport"} ->
            <<ServiceCryptoItem(Thumbprint(m), "public", p),
              ServiceCryptoItem(Thumbprint(m), "x509", p)>>
      [] OTHER -> <<>>

\* the handles in the result of a case: toProto() of the key, of both keys of
\* a pair, of the certificate (whose proto holds that of its public key)
Named(tag, p, kt, m, pair) ==
    CASE tag = "GenerateKey" ->
            IF pair THEN {[id |-> FreshId, providerID |-> p, type |-> "private"],
                          [id |-> FreshId, providerID |-> p, type |-> "public"]}
            ELSE {[id |-> FreshId, providerID |-> p, type |-> "secret"]}
      [] tag \in NewKeyTags \cup {"KeyStorageGetItem"} ->
            {[id |-> GetIdentity(kt, m), providerID |-> p, type |-> kt]}
      [] tag \in {"CertificateStorageGetItem", "CertificateStorageImport"} ->
            {[id |-> Thumbprint(m), providerID |-> p, type |-> "x509"],
             [id |-> Thumbprint(m), providerID |-> p, type |-> "public"]}
      [] OTHER -> {}

\* the case draws 32 random bytes or creates new key material
DrawsFresh(tag, kt) ==
    \/ tag = "GenerateKey"
    \/ tag \in NewKeyTags \cup {"KeyStorageGetItem"} /\ kt # "public"

KeyStorageAfter(tag, p, m) ==
    CASE tag = "KeyStorageSetItem" -> [keyStorage EXCEPT ![p] = @ \cup {m}]
      [] tag = "KeyStorageRemoveItem" -> [keyStorage EXCEPT ![p] = @ \ {m}]
      [] OTHER -> keyStorage

CertStorageAfter(tag, p, m) ==
    CASE tag = "CertificateStorageSetItem" -> [certStorage EXCEPT ![p] = @ \cup {m}]
      [] tag = "CertificateStorageRemoveItem" -> [certStorage EXCEPT ![p] = @ \ {m}]
      [] tag \in {"KeyStorageClear", "CertificateStorageClear"} ->
            [certStorage EXCEPT ![p] = {}]
      [] OTHER -> certStorage

\* the provider operation of the case settled (ok: it resolved); the case then
\* runs to its end: GetIdentity, the pushes to memoryStorage, the encoding.
\* p is params.providerID, which a case that resolved a handle read before
Finish(t, p, ok, kt, m, pair) ==
    /\ t \in tasks
    /\ t.pc = "op"
    /\ t.prov # "" => p = t.prov
    /\ LET tag == t.req.action
           done == [t EXCEPT !.prov = "", !.keys = {}] IN
       IF ~ok
       THEN /\ tasks' = (tasks \ {t}) \cup {Throw(done, ExternalError)}
            /\ UNCHANGED <<memoryStorage, idCounter, keyStorage, certStorage>>
       ELSE IF OpThrows(tag, p, m) # ""
       THEN /\ tasks' = (tasks \ {t}) \cup {Throw(done, OpThrows(tag, p, m))}
            /\ UNCHANGED <<memoryStorage, idCounter, keyStorage, certStorage>>
       ELSE /\ tasks' = (tasks \ {t}) \cup
                       {[Return(done, DataOf(tag)) EXCEPT
                            !.named = Named(tag, p, kt, m, pair)]}
            /\ memoryStorage' = memoryStorage \o Pushes(tag, p, kt, m, pair)
            /\ idCounter' = IF DrawsFresh(tag, kt) THEN idCounter + 1 ELSE idCounter
            /\ keyStorage' = KeyStorageAfter(tag, p, m)
            /\ certStorage' = CertStorageAfter(tag, p, m)
    /\ UNCHANGED <<sessions, session, pushed, loggedIn, received, handed>>
    /\ UNCHANGED tokens
    /\ UNCHANGED clientVars

\* --- the reply path of class Server: e.resolve sends the ResultProto, e.reject
\* sends a ResultProto of the request with the error message and no data
ReplyEnvelope(t) ==
    IF t.thrown = "" THEN t.resultProto
    ELSE [ResultProto(t.req) EXCEPT !.error = t.thrown]

\* faulty variant: .then(e.resolve): a rejection reaches no callback
Handed_ResolveOnly(t) ==
    IF t.thrown = ""
    THEN <<[kind |-> "resolve", value |-> t.resultProto]>>
    ELSE <<>>
\* .then(e.resolve, e.reject): the calls of e.resolve / e.reject that the
\* settled promise of an onMessage call causes
Handed(t) ==
    IF t.thrown = ""
    THEN <<[kind |-> "resolve", value |-> t.resultProto]>>
    ELSE <<[kind |-> "reject", value |-> t.thrown]>>

\* faulty variant: the listener answers without waiting for the promise
Reply_Early(t) ==
    /\ t \in tasks
    /\ tasks' = tasks \ {t}
    /\ handed' = handed + Len(Handed(t))
    /\ UNCHANGED <<sessions, session, pushed, memoryStorage, keyStorage,
                   certStorage, loggedIn, received, idCounter>>
    /\ UNCHANGED tokens
    /\ UNCHANGED clientVars
\* the then-callback of the 'message' listener runs
Reply(t) ==
    /\ t \in tasks
    /\ t.pc = "ret"
    /\ tasks' = tasks \ {t}
    /\ handed' = handed + Len(Handed(t))
    /\ UNCHANGED <<sessions, session, pushed, memoryStorage, keyStorage,
                   certStorage, loggedIn, received, idCounter>>
    /\ UNCHANGED tokens
    /\ UNCHANGED clientVars

ServerNext ==
    \/ \E s \in SessIds : SessionOpen(s)
    \/ \E s \in SessIds : SessionAuth(s)
    \/ \E s \in SessIds : SessionClose(s)
    \/ \E s \in SessIds, tag \in Tags : Receive(s, tag)
    \/ \E t \in tasks : \E p \in ProvidersOf(t.req.action, "start"),
                           ok \in SettlesOf(t.req.action),
                           ref \in RefsOf(t.req.action) : Begin(t, p, ok, ref)
    \/ \E t \in tasks, ref \in Refs : Mid(t, ref)
    \/ \E t \in tasks, r \in {"replied", "loginThrows", "timeout"} : Prompt(t, r)
    \/ \E t \in tasks : \E p \in ProvidersOf(t.req.action, "op"), ok \in BOOLEAN,
                           kt \in KeyTypesOf(t.req.action), m \in Materials,
                           pair \in PairsOf(t.req.action) : Finish(t, p, ok, kt, m, pair)
    \/ \E t \in tasks : Reply(t)

SpecServer == Init /\ [][ServerNext]_vars

SpecClient == Init /\ [][ClientNext]_vars

SpecStore == Init /\ [][StoreNext]_vars

\* ================================================= claims about the client
Settled(i) == calls[i].nres + calls[i].nrej
InFlight(i) == calls[i].pc \in {"export", "encrypt", "exportMsg"}
\* nothing can happen to the pending calls any more
ClientQuiet ==
    /\ socket = "closed"
    /\ inbound = {}
    /\ \A i \in DOMAIN calls : ~InFlight(i)
ConnectionEvents == {"listening", "close", "error", ClientErrorEvent(GetError)}

\* C1: every send that was assigned an actionId has its promise settled
\* exactly once: never twice, never both ways, and, once the socket is closed
\* and nothing is in processing any more, not zero times.
C1_SettledExactlyOnce ==
    /\ \A i \in DOMAIN calls : Settled(i) <= 1
    /\ ClientQuiet => \A i \in DOMAIN calls : calls[i].id # NoId => Settled(i) = 1

\* C2: once the socket is closed the pending map is empty and every call that
\* was pending has been rejected with a channel-closed error.
C2_CloseRejectsPending ==
    socket = "closed" =>
        /\ DOMAIN stack = {}
        /\ \A i \in DOMAIN calls :
              calls[i].pc \in {"sent", "dropped"} =>
                  \/ calls[i].from # NoCall
                  \/ calls[i].nrej = 1 /\ calls[i].val = ChannelClosedError

\* C3: a send called while the channel is not open is rejected at once with
\* 'Socket connection is not open'; it consumes no actionId, inserts no
\* pending entry and transmits nothing.
C3_NotOpenFailsImmediately ==
    /\ \A i \in DOMAIN calls :
          calls[i].pc = "thrown" =>
              /\ calls[i].nrej = 1 /\ calls[i].nres = 0
              /\ calls[i].val = NotOpenError
              /\ calls[i].id = NoId
              /\ \A k \in DOMAIN stack : stack[k] # i
              /\ \A f \in wire : f.payload # i
    /\ messageCounter = Cardinality({i \in DOMAIN calls : calls[i].pc # "thrown"})

\* C4: with several sends outstanding and the replies arriving in any order,
\* every reply settles the caller whose frame it answers, rejecting when the
\* reply has an error and resolving with its data otherwise; and when every
\* transmitted frame has been answered and processed, every such call is settled.
C4_RepliesSettleOwnCaller ==
    /\ \A i \in DOMAIN calls :
          calls[i].from # NoCall =>
              /\ calls[i].from = i
              /\ Settled(i) = 1
              /\ calls[i].nres = 1 <=> calls[i].val = "data"
    /\ (wire = {} /\ inbound = {} /\ \A i \in DOMAIN calls : ~InFlight(i)) =>
          \A i \in DOMAIN calls : calls[i].pc = "sent" => Settled(i) = 1

\* C5: processing an envelope whose actionId has no pending entry dispatches
\* it to the event listeners, settles no call, changes no pending entry and
\* raises no failure.
C5_UnsolicitedDispatched ==
    [][\A m \in inbound :
          (m.pc = "parse" /\ m.actionId \notin DOMAIN stack /\ inbound' = inbound \ {m})
          => /\ calls' = calls
             /\ stack' = stack
             /\ unhandled' = unhandled
             /\ \E ev \in events' : ev \notin ConnectionEvents]_vars

\* ============================================ claims about the identity store
\* C18: an identity is saved only when the storage holds none, a saved
\* identity is never overwritten, and a handler that loads while the storage
\* holds an identity gets that identity and saves nothing.
C18_IdentityReused ==
    /\ [][storage'.identity # storage.identity =>
             storage.identity = NoIdentity]_vars
    /\ [][\A c \in Handlers :
             (/\ opens[c].pc = "load"
              /\ opens'[c].pc \notin {"load", "failed"}
              /\ storage.identity # NoIdentity) =>
                 /\ opens'[c].identity = storage.identity
                 /\ opens'[c].pc = "bundle"]_vars

\* C19: a handler that sets this.cipher while the storage holds the remote
\* identity of the bundle and a session for it resumes that stored session.
C19_ResumesStoredSession ==
    [][\A c \in Handlers :
          (/\ opens[c].pc = "bundle"
           /\ opens'[c].pc = "saveRemote"
           /\ storage.remote = ServerIdentity
           /\ storage.session # NoSession) =>
              opens'[c].cipher = storage.session]_vars

\* C20: once the discovery GET has failed, the 'error' event with 'Cannot GET
\* response' was emitted, no socket exists, the body of onopen never ran,
\* 'listening' was never emitted and the storage is as it was.
C20_GetFailure ==
    connectPc = "failed" =>
        /\ "error: Cannot GET response" \in events
        /\ socket = "none"
        /\ openPc = "idle"
        /\ ~cipher
        /\ "listening" \notin events
        /\ storage = EmptyStorage

\* the GET failed and the application went on to call send, which is refused
C20_Witness ==
    /\ connectPc = "failed"
    /\ "error: Cannot GET response" \in events
    /\ Len(calls) > 0

\* ============================================= claims about the dispatcher
Settling == {t \in tasks : t.pc = "ret"}
HasData(r) == r.data # Undefined
HasError(r) == r.error # ""
\* the actions the session life cycle permits before authorization
UnauthActions == {"ProviderInfo", "ProviderGetCrypto", "IsLoggedIn", "Login"}

\* C6: every action envelope received is either still in processing or has
\* had exactly one outcome handed to the reply path, every settled call hands
\* over exactly one outcome, and the ResultProto of a call carries the
\* actionId and the action of the request that caused it.
C6_ExactlyOneOutcome ==
    /\ received = Cardinality(tasks) + handed
    /\ \A t \in tasks :
          /\ t.pc \in {"start", "mid", "prompt", "op", "ret"}
          /\ t.resultProto.actionId = t.req.actionId
          /\ t.resultProto.action = t.req.action
          /\ t.pc = "ret" =>
                /\ Len(Handed(t)) = 1
                /\ Handed(t)[1].kind = "resolve" =>
                      /\ Handed(t)[1].value.actionId = t.req.actionId
                      /\ Handed(t)[1].value.action = t.req.action

\* an envelope was answered with a result, another one is about to be rejected
C6_Witness ==
    /\ handed = 1
    /\ \E t \in Settling : t.thrown # "" /\ Handed(t)[1].kind = "reject"

\* C7 as stated: every result envelope has exactly one of data and error.
C7_ExactlyOneOfDataError ==
    \A t \in Settling : HasData(ReplyEnvelope(t)) # HasError(ReplyEnvelope(t))

\* C7 as amended: a result envelope never has both data and error; a failed
\* action yields the error and no data; a successful action yields no error,
\* and data unless it is one of the cases that compute no value
\* (ProviderGetCrypto, Login, RemoveItem, Clear), which yield neither.
C7_AtMostOneOfDataError ==
    \A t \in Settling :
        LET r == ReplyEnvelope(t) IN
        /\ ~(HasData(r) /\ HasError(r))
        /\ t.thrown # "" => HasError(r) /\ ~HasData(r)
        /\ t.thrown = "" =>
              /\ ~HasError(r)
              /\ HasData(r) <=> t.req.action \notin VoidTags

\* a key-storage action succeeded with data, a void action succeeded with none
C7_Witness ==
    /\ \E t \in Settling :
          t.thrown = "" /\ t.req.action = "KeyStorageKeys" /\ HasData(ReplyEnvelope(t))
    /\ \E t \in Settling :
          t.thrown = "" /\ t.req.action = "KeyStorageRemoveItem"
          /\ ~HasData(ReplyEnvelope(t)) /\ ~HasError(ReplyEnvelope(t))

\* C8: an envelope with a tag the switch does not handle is answered with the
\* error "Unknown action '<tag>'" and no data; receiving and answering it
\* changes neither memoryStorage nor the session list nor any session, and
\* the same session can send further envelopes, which are processed.
UnknownTask(t) == t.req.action \notin HandledTags
C8_UnknownAction ==
    /\ [](\A t \in tasks :
            UnknownTask(t) =>
               /\ t.pc = "ret"
               /\ t.thrown = "Unknown action '" \o t.req.action \o "'"
               /\ Handed(t) = <<[kind |-> "reject", value |-> t.thrown]>>
               /\ ReplyEnvelope(t).error = t.thrown
               /\ ~HasData(ReplyEnvelope(t)))
    /\ [][\A t \in tasks \cup tasks' :
            (UnknownTask(t) /\ ~(t \in tasks /\ t \in tasks')) =>
               /\ memoryStorage' = memoryStorage
               /\ sessions' = sessions
               /\ session' = session
               /\ keyStorage' = keyStorage /\ certStorage' = certStorage
               /\ (tasks' \ {t}) = (tasks \ {t})]_vars

\* an unknown action is being answered while a later envelope of the same
\* session has been processed successfully
C8_Witness ==
    \E t, u \in Settling :
        /\ UnknownTask(t)
        /\ u.sess = t.sess /\ IsOpen(t.sess)
        /\ u.req.actionId > t.req.actionId
        /\ u.thrown = "" /\ HasData(u.resultProto)

\* C9: a condition thrown inside a handler settles the call (it is never
\* lost), is handed to the reply path as one rejection and becomes a result
\* with the thrown message as error and no data; answering it leaves every
\* other call in processing untouched.
C9_ThrowBecomesErrorResult ==
    /\ [](\A t \in tasks :
            /\ t.pc \in {"start", "mid", "prompt", "op", "ret"}
            /\ t.thrown # "" =>
                  /\ t.pc = "ret"
                  /\ Handed(t) = <<[kind |-> "reject", value |-> t.thrown]>>
                  /\ ReplyEnvelope(t).error = t.thrown
                  /\ ~HasData(ReplyEnvelope(t))
                  /\ ReplyEnvelope(t).actionId = t.req.actionId)
    /\ [][\A t \in tasks :
            (t.thrown # "" /\ t \notin tasks') =>
               /\ handed' = handed + 1
               /\ tasks' = tasks \ {t}]_vars

\* a handler of one session threw while an envelope of another session,
\* received later, has been processed successfully
C9_Witness ==
    \E t, u \in Settling :
        /\ t.thrown \in {TypeError, ExternalError, "Cannot get key by identity '1'"}
        /\ u.sess # t.sess
        /\ u.req.actionId > t.req.actionId
        /\ u.thrown = ""

\* C10: on a session that is not authorized only ProviderInfo,
\* ProviderGetCrypto, IsLoggedIn and Login are executed; any other action is
\* refused: its handler does not run and its call ends with an error.
C10_UnauthOnlyPermitted ==
    \A t \in tasks :
        (session[t.sess] = "open-unauth" /\ t.req.action \notin UnauthActions) =>
            /\ t.pc \in {"start", "ret"}
            /\ t.pc = "ret" => t.thrown # ""

\* --- the 'token' listener of the provider
MaxTokenEvents == 2

\* the tokens an event of the provider names in `added` / `removed`
TokenInfos == {<<>>, <<"t1">>, <<"t1", "t2">>}
RawItem(id) == [proto |-> FALSE, id |-> id]
RawInfo(ids) == [i \in DOMAIN ids |-> RawItem(ids[i])]

\* new ProviderCryptoProto(item): the wire form of an item; of a wire form, a copy
ProviderCryptoProto(item) == [proto |-> TRUE, id |-> item.id]

\* the encoded list of a ProviderTokenEventProto: an item that is no
\* ProviderCryptoProto is not encoded as one
RECURSIVE EncodeItems(_, _)
EncodeItems(items, i) ==
    IF i > Len(items) THEN ""
    ELSE (IF items[i].proto THEN "[" ELSE "?[") \o items[i].id \o "]"
            \o EncodeItems(items, i + 1)

\* new ProviderTokenEventProto(info), as the session receives it
ProviderTokenEventProto(info) ==
    "token +" \o EncodeItems(info.added, 1) \o " -" \o EncodeItems(info.removed, 1)

\* server.send(session, event): sent through the ratchet of an open session;
\* for a closed one the promise rejects and the rejection is logged
ServerSend(out, s, event) ==
    IF IsOpen(s) THEN [out EXCEPT ![s] = Append(@, event)] ELSE out

\* faulty variant: `if (session.cipher)`
TokenReceiver_AnyCipher(s) == session[s] \in {"open-unauth", "open-auth", "closed"}
\* faulty variant: the authorization of a session outlives its connection
TokenReceiver_StaysAuthorized(s) == session[s] \in {"open-auth", "closed"}
\* `if (session.cipher && session.authorized)`
TokenReceiver(s) ==
    /\ session[s] \in {"open-unauth", "open-auth", "closed"}
    /\ session[s] = "open-auth"

\* this.sessions.forEach from position i on: info is converted in place for each
\* receiver, then sent to it
RECURSIVE TokenLoop(_, _, _)
TokenLoop(i, info, out) ==
    IF i > Len(sessions) THEN out
    ELSE IF TokenReceiver(sessions[i])
         THEN LET converted ==
                    [added |-> [k \in DOMAIN info.added |->
                                    ProviderCryptoProto(info.added[k])],
                     removed |-> [k \in DOMAIN info.removed |->
                                    ProviderCryptoProto(info.removed[k])]]
              IN TokenLoop(i + 1, converted,
                           ServerSend(out, sessions[i],
                                      ProviderTokenEventProto(converted)))
         ELSE TokenLoop(i + 1, info, out)

\* the provider emits 'token'
ProviderToken(added, removed) ==
    /\ tokens < MaxTokenEvents
    /\ tokens' = tokens + 1
    /\ pushed' = TokenLoop(1, [added |-> RawInfo(added), removed |-> RawInfo(removed)],
                           pushed)
    /\ UNCHANGED <<sessions, session, memoryStorage, keyStorage, certStorage,
                   loggedIn, tasks, received, idCounter, handed>>
    /\ UNCHANGED clientVars

TokenNext ==
    \/ \E s \in SessIds : SessionOpen(s)
    \/ \E s \in SessIds : SessionAuth(s)
    \/ \E s \in SessIds : SessionClose(s)
    \/ \E added \in TokenInfos, removed \in TokenInfos : ProviderToken(added, removed)

SpecToken == Init /\ [][TokenNext]_vars

\* --- two sessions and one registry: the first session produces keys, the
\* second one only refers to handles
OwnerSession == 1
VisitorSession == 2
OwnerTags == {"GenerateKey", "ImportKey"}
VisitorTags == {"Sign", "DeriveBits"}

HandlesNext ==
    \/ \E s \in SessIds : SessionOpen(s)
    \/ \E s \in SessIds : SessionClose(s)
    \/ \E tag \in OwnerTags : Receive(OwnerSession, tag)
    \/ \E tag \in VisitorTags : Receive(VisitorSession, tag)
    \/ \E t \in tasks : \E p \in ProvidersOf(t.req.action, "start"),
                           ok \in SettlesOf(t.req.action),
                           ref \in RefsOf(t.req.action) : Begin(t, p, ok, ref)
    \/ \E t \in tasks, ref \in Refs : Mid(t, ref)
    \/ \E t \in tasks : \E p \in ProvidersOf(t.req.action, "op"), ok \in BOOLEAN,
                           kt \in KeyTypesOf(t.req.action), m \in Materials,
                           pair \in PairsOf(t.req.action) : Finish(t, p, ok, kt, m, pair)
    \/ \E t \in tasks : Reply(t)

SpecHandles == Init /\ [][HandlesNext]_vars

\* --- claims about the session registry and the handles

\* a Login call that returned without throwing: its result is handed to the
\* session by the step
LoginReplied(t) ==
    /\ t \in tasks
    /\ t \notin tasks'
    /\ t.req.action = "Login"
    /\ t.pc = "ret"
    /\ t.thrown = ""

\* C11: when the result of a successful Login is handed to an open session, the
\* session is in `open-auth` and an `authorized` event has been pushed to it
C11_LoginAuthorizes ==
    [][\A t \in tasks :
          (LoginReplied(t) /\ IsOpen(t.sess)) =>
              /\ session'[t.sess] = "open-auth"
              /\ \E i \in DOMAIN pushed'[t.sess] : pushed'[t.sess][i] = "authorized"]_vars

\* the event a session is to receive for a token event of the provider
ExpectedTokenEvent(added, removed) ==
    ProviderTokenEventProto(
        [added |-> [k \in DOMAIN added |-> ProviderCryptoProto(RawItem(added[k]))],
         removed |-> [k \in DOMAIN removed |-> ProviderCryptoProto(RawItem(removed[k]))]])

TokenEvents ==
    {ExpectedTokenEvent(a, r) : a \in TokenInfos, r \in TokenInfos}

\* C12: a step in which a token event is sent gives every session that is
\* authorized with a live ratchet exactly one ProviderTokenEvent, which carries
\* the added and removed items of the event in their wire form, and gives every
\* other session nothing
C12_TokenBroadcast ==
    [][tokens' # tokens =>
          \E a \in TokenInfos, r \in TokenInfos :
             \A s \in SessIds :
                pushed'[s] = IF session[s] = "open-auth"
                             THEN Append(pushed[s], ExpectedTokenEvent(a, r))
                             ELSE pushed[s]]_vars

\* one session authorized, one not: the first holds one token event naming t1,
\* the second holds nothing
C12_Witness ==
    /\ session[1] = "open-auth"
    /\ session[2] = "open-unauth"
    /\ pushed[1] = <<"authorized", ExpectedTokenEvent(<<"t1">>, <<>>)>>
    /\ pushed[2] = <<>>

\* the call resolved every handle it refers to so far to a live object
ResolvedHandle(t) ==
    \/ t.pc \in {"mid", "op"}
    \/ t.pc = "ret" /\ t.thrown = ""

\* C13: every entry of the registry was registered for the first session; no
\* operation of the second session that refers to a handle resolves it to a
\* live object
C13_HandleSessionScoped ==
    \A t \in tasks :
        (t.sess = VisitorSession /\ t.req.action \in LookupTags) => ~ResolvedHandle(t)

\* the handle {id, providerID, type} the client receives for a registry entry
HandleOf(item) == [id |-> item.id, providerID |-> item.providerID, type |-> item.type]

\* the entries a step pushed; each push wraps a new live object, which the
\* position of the entry identifies
Registered == {j \in DOMAIN memoryStorage' : j > Len(memoryStorage)}

\* C14: the handle of every entry a key-producing action registers resolves to
\* that entry, and a handle that resolves to an entry resolves to the same entry
\* after any later step
C14_HandleFindsObject ==
    /\ [][\A j \in Registered :
             FirstMatch(memoryStorage', HandleOf(memoryStorage'[j]), 1) = j]_vars
    /\ [][\A j \in DOMAIN memoryStorage :
             FirstMatch(memoryStorage', HandleOf(memoryStorage[j]), 1)
                = FirstMatch(memoryStorage, HandleOf(memoryStorage[j]), 1)]_vars

\* a GenerateKey call that generated a key pair ends in the step
GeneratedPair ==
    \E t \in tasks :
        /\ t.req.action = "GenerateKey"
        /\ t.pc = "op"
        /\ \E u \in tasks' \ tasks : u.req = t.req /\ u.pc = "ret" /\ u.thrown = ""
        /\ Len(memoryStorage') = Len(memoryStorage) + 2

\* C15: the two handles of a generated key pair have the same id, and no handle
\* returned before has it
C15_PairSharesFreshId ==
    [][GeneratedPair =>
          LET n == Len(memoryStorage)
              publicKey == memoryStorage'[n + 1]
              privateKey == memoryStorage'[n + 2] IN
          /\ publicKey.type = "public"
          /\ privateKey.type = "private"
          /\ publicKey.id = privateKey.id
          /\ \A i \in 1..n : memoryStorage[i].id # publicKey.id]_vars

\* a key pair was generated after another handle had been returned
C15_Witness ==
    /\ Len(memoryStorage) = 3
    /\ memoryStorage[2].type = "public"
    /\ memoryStorage[3].type = "private"
    /\ memoryStorage[2].id = memoryStorage[3].id
    /\ memoryStorage[1].id # memoryStorage[2].id

\* the errors of a call that names a handle the registry does not hold
NotFoundErrors == {ItemNotFoundError(ref.id) : ref \in Refs}

\* C16: a call that refers to handles and fails while it resolves them, fails
\* with "Cannot get CryptoItem by ID '<id>'" (or with the error of its provider)
\* and has not reached its provider operation
C16_MissingHandleError ==
    [][\A t \in tasks :
          (t.req.action \in LookupTags /\ t.pc \in {"start", "mid"}) =>
              \A u \in tasks' \ tasks :
                  (u.req = t.req /\ u.pc = "ret") =>
                      u.thrown \in {ExternalError} \cup NotFoundErrors]_vars

\* C17: a KeyStorage.GetItem that fails after its provider operation inserts no
\* entry and fails with "Cannot get key by identity '<id>'" (or with the error of
\* the provider); one that succeeds registers a key of a provider whose key
\* storage contains an index, the index itself when the key is public
C17_MissingKeyError ==
    [][\A t \in tasks :
          (t.req.action = "KeyStorageGetItem" /\ t.pc = "op") =>
              \A u \in tasks' \ tasks :
                  (u.req = t.req /\ u.pc = "ret") =>
                      IF u.thrown # ""
                      THEN /\ memoryStorage' = memoryStorage
                           /\ u.thrown \in {ExternalError}
                                  \cup {KeyNotFoundError(m) : m \in Materials}
                      ELSE /\ Len(memoryStorage') = Len(memoryStorage) + 1
                           /\ LET key == memoryStorage'[Len(memoryStorage')] IN
                              /\ keyStorage[key.providerID] # {}
                              /\ key.type = "public" =>
                                    key.id \in keyStorage[key.providerID]]_vars

\* a KeyStorage.GetItem for an index the storage does not contain has failed and
\* the registry is empty
C17_Witness ==
    /\ memoryStorage = <<>>
    /\ \E t \in tasks :
          /\ t.req.action = "KeyStorageGetItem"
          /\ t.pc = "ret"
          /\ t.thrown = KeyNotFoundError(1)

\* --- claims about the order of insertions and replies

\* the calls whose outcome the step hands to the reply path
Answered ==
    {t \in tasks : ~\E u \in tasks' : u.req = t.req /\ u.sess = t.sess}

\* C21: while a call waits for its result to be handed to the reply path, and
\* in the step that hands it over, the registry holds an entry for every handle
\* the result names
C21_InsertedBeforeReply ==
    /\ [](\A t \in Settling : \A h \in t.named : getItemFromStorage(h) > 0)
    /\ [][\A t \in Answered :
             \A h \in t.named : FirstMatch(memoryStorage, h, 1) > 0]_vars

\* the result of a call names two handles and waits to be handed over while
\* another call is between two awaits
C21_Witness ==
    \E t, u \in tasks :
        /\ t.pc = "ret"
        /\ Cardinality(t.named) = 2
        /\ u.pc \in {"start", "mid", "op"}

\* C22: a call leaves the set of running calls only when its handler has
\* returned or thrown, in a step that hands over one outcome, and what is
\* handed over is the result of that call: it has the actionId and the action
\* of the call's own request, whatever the other calls did in the meantime
C22_ReplyAfterHandler ==
    /\ [][\A t \in Answered :
             /\ t.pc = "ret"
             /\ handed' = handed + 1
             /\ ReplyEnvelope(t).actionId = t.req.actionId
             /\ ReplyEnvelope(t).action = t.req.action]_vars
    /\ [][\A t \in tasks, u \in tasks' :
             (u.req = t.req /\ u.sess = t.sess) =>
                 /\ u.resultProto.actionId = t.resultProto.actionId
                 /\ t.pc = "ret" => u = t]_vars

\* two calls of one session: the later one has finished, the earlier one is
\* still between two awaits
C22_Witness ==
    \E t, u \in tasks :
        /\ t.sess = u.sess
        /\ t.req.actionId < u.req.actionId
        /\ t.pc \in {"mid", "op", "prompt"}
        /\ u.pc = "ret"

\* --- claims about the lookup in the registry

\* the triples a client can ask for: every id in the registry or unknown, with
\* every provider and every type
Queries ==
    {[id |-> i, providerID |-> p, type |-> ty] :
        i \in {0} \cup {memoryStorage[j].id : j \in DOMAIN memoryStorage},
        p \in Providers,
        ty \in KeyTypes \cup {"x509"}}

\* C23: for every triple, getItemFromStorage returns an entry whose id,
\* providerID and type equal the triple and that no entry with an equal triple
\* precedes, and returns nothing only when no entry has an equal triple
C23_FirstInsertedWins ==
    \A q \in Queries :
        LET r == getItemFromStorage(q) IN
        IF r > 0
        THEN /\ r \in DOMAIN memoryStorage
             /\ HandleOf(memoryStorage[r]) = q
             /\ \A j \in 1..(r - 1) : HandleOf(memoryStorage[j]) # q
        ELSE /\ r = 0
             /\ \A j \in DOMAIN memoryStorage : HandleOf(memoryStorage[j]) # q

\* the same public key was imported twice: two entries with one triple, and
\* the lookup returns the first
C23_Witness ==
    /\ Len(memoryStorage) = 2
    /\ HandleOf(memoryStorage[1]) = HandleOf(memoryStorage[2])
    /\ getItemFromStorage(HandleOf(memoryStorage[2])) = 1

\* C24: a CertificateStorage.GetItem that succeeds appends exactly two entries,
\* the certificate and its public key, with one id and one providerID, that of
\* a provider whose certificate storage holds a certificate, and its result
\* names both; one that fails appends nothing and its result is an error
\* without data
C24_CertificateGetItem ==
    [][\A t \in tasks :
          (t.req.action = "CertificateStorageGetItem" /\ t.pc = "op") =>
              \A u \in tasks' \ tasks :
                  (u.req = t.req /\ u.pc = "ret") =>
                      IF u.thrown = ""
                      THEN /\ Len(memoryStorage') = Len(memoryStorage) + 2
                           /\ SubSeq(memoryStorage', 1, Len(memoryStorage)) = memoryStorage
                           /\ LET n == Len(memoryStorage)
                                  a == memoryStorage'[n + 1]
                                  b == memoryStorage'[n + 2] IN
                              /\ {a.type, b.type} = {"public", "x509"}
                              /\ a.id = b.id
                              /\ a.providerID = b.providerID
                              /\ a.id \in certStorage[a.providerID]
                              /\ u.named = {HandleOf(a), HandleOf(b)}
                      ELSE /\ memoryStorage' = memoryStorage
                           /\ HasError(ReplyEnvelope(u))
                           /\ ~HasData(ReplyEnvelope(u))]_vars

\* one GetItem registered a certificate and its public key, another one, for
\* an index that holds no certificate, failed
C24_Witness ==
    /\ Len(memoryStorage) = 2
    /\ memoryStorage[1].id = memoryStorage[2].id
    /\ \E t, u \in Settling :
          /\ t.req.action = "CertificateStorageGetItem"
          /\ u.req.action = "CertificateStorageGetItem"
          /\ t.thrown = ""
          /\ t.named = {HandleOf(memoryStorage[1]), HandleOf(memoryStorage[2])}
          /\ u.thrown = TypeError

\* --- claims about the storages of the providers

\* C28: a KeyStorage.Clear that succeeds empties the key storage of one
\* provider and leaves every certificate storage as it was
C28_KeyStorageClear ==
    [][\A t \in tasks :
          (t.req.action = "KeyStorageClear" /\ t.pc = "op") =>
              \A u \in tasks' \ tasks :
                  (u.req = t.req /\ u.pc = "ret" /\ u.thrown = "") =>
                      /\ \E p \in Providers : keyStorage' = [keyStorage EXCEPT ![p] = {}]
                      /\ certStorage' = certStorage]_vars

\* --- claims about the pending map and the ratchet of the client

\* the calls that were assigned an actionId
Assigned == {i \in DOMAIN calls : calls[i].id # NoId}
\* the calls whose {resolve, reject} has been stored and not been used yet
Pending == {i \in DOMAIN calls : calls[i].pc \in {"sent", "dropped"} /\ Settled(i) = 0}

\* C27: the actionIds assigned are 0, 1, 2, ... in the order of the send calls,
\* and every pending call has its entry of the pending map under the actionId
\* assigned to it, so no two pending calls share a key
C27_DistinctIncreasingIds ==
    /\ \A i \in Assigned :
          calls[i].id = Cardinality({j \in Assigned : j < i})
    /\ messageCounter = Cardinality(Assigned)
    /\ \A i \in Pending :
          /\ calls[i].id \in DOMAIN stack
          /\ stack[calls[i].id] = i

\* the replies among the inbound frames (an unsolicited event answers no call)
Replies == {m \in inbound : m.payload # NoCall}

\* C29: from the moment the frame of a call is handed to the socket until its
\* reply has been processed the pending map has an entry under the actionId of
\* the frame: every transmitted frame and every reply on its way has one, and an
\* entry is removed only by the processing of a reply that carries its key
C29_EntryOutlivesFrame ==
    /\ [](/\ \A f \in wire : f.id \in DOMAIN stack
          /\ \A m \in Replies : m.actionId \in DOMAIN stack)
    /\ [][\A k \in DOMAIN stack :
             k \notin DOMAIN stack' =>
                 \E m \in Replies : m.actionId = k /\ m.pc = "parse" /\ m \notin inbound']_vars

\* C30: a call whose promise chain failed after the check of the socket state
\* (exportProto rejected, or this.cipher.encrypt threw or rejected) has had its
\* promise rejected, once
C30_FailedSendRejects ==
    \A i \in DOMAIN calls :
        calls[i].pc = "failed" => calls[i].nrej = 1 /\ calls[i].nres = 0

InEncrypt == {i \in DOMAIN calls : calls[i].pc = "encrypt"}
InDecrypt == {m \in inbound : m.pc = "decrypt"}

\* C25: at most one call of cipher.encrypt or cipher.decrypt is in progress
C25_RatchetCallsSerialized ==
    Cardinality(InEncrypt) + Cardinality(InDecrypt) <= 1

\* --- a data object passed to more than one send

\* the calls of send whose data object was also passed to another call
SharedCalls ==
    {i \in DOMAIN calls :
        calls[i].obj # 0 /\ \E j \in DOMAIN calls : j # i /\ calls[j].obj = calls[i].obj}

\* C31: of two calls of send that were given the same ActionProto, each frame
\* carries the actionId assigned to its own call and each call's
\* {resolve, reject} is stored under that actionId until it is used; calls that
\* do not overlap satisfy this trivially, so a violation is one of two
\* overlapping calls
C31_SharedProtoKeepsOwnId ==
    \A i \in SharedCalls :
        /\ calls[i].pc \in {"sent", "dropped"} => calls[i].frameId = calls[i].id
        /\ i \in Pending => /\ calls[i].id \in DOMAIN stack
                            /\ stack[calls[i].id] = i

\* --- closed sessions

\* the sessions the 'token' listener calls server.send for
SendTargets == {sessions[i] : i \in {j \in DOMAIN sessions : TokenReceiver(sessions[j])}}
ClosedSessions == {s \in SessIds : session[s] = "closed"}

Running == {t \in tasks : t.pc = "op" /\ t.keys # {}}

\* C33: a provider operation that is running on objects resolved from the
\* registry runs on the crypto of the provider recorded in their entries
C33_ProviderAffinity ==
    \A t \in Running : \A q \in t.keys : q = t.prov

====
